---- MODULE Spec2Model ----
(***************************************************************************)
(* Model of src/app.py: the personal-finance tracker "Finanzas             *)
(* Personales" (80/10/10 rule).  Two SQLite tables (ingresos, gastos), the *)
(* data-access functions over them, the bucket classifier, the period      *)
(* summary and the Streamlit form handlers that call them.                 *)
(*                                                                         *)
(* Text values whose content the code inspects (dates, categories) are     *)
(* sequences of one-character strings.  REAL amounts are exact integers in *)
(* cents; every amount drawn as an input is a whole number of currency     *)
(* units, so valor * (porc / 100) is an exact number of cents.             *)
(***************************************************************************)
EXTENDS Integers, Sequences, FiniteSets, TLC

(***************************************************************************)
(* Bound of the model: total number of INSERT statements over both tables. *)
(***************************************************************************)
MaxRegistros == 3

(***************************************************************************)
(* Characters and text comparison.                                         *)
(***************************************************************************)
\* The characters that occur in date texts, in ascending byte order.
AsciiOrder == <<" ", "-", "0", "1", "2", "3", "4", "5", "6", "7", "8", "9">>

Ord(c) == CHOOSE i \in 1..Len(AsciiOrder) : AsciiOrder[i] = c

Digits == {"0", "1", "2", "3", "4", "5", "6", "7", "8", "9"}

DigitVal(c) == Ord(c) - Ord("0")

\* SQLite BINARY collation on TEXT: bytewise comparison, a proper prefix
\* sorts first.
RECURSIVE TextLess(_, _)
TextLess(a, b) ==
    IF b = <<>> THEN FALSE
    ELSE IF a = <<>> THEN TRUE
    ELSE IF Head(a) = Head(b) THEN TextLess(Tail(a), Tail(b))
    ELSE Ord(Head(a)) < Ord(Head(b))

UpperCase == <<"A", "B", "C", "D", "E", "F", "G", "H", "I", "J", "K", "L", "M",
               "N", "O", "P", "Q", "R", "S", "T", "U", "V", "W", "X", "Y", "Z">>
LowerCase == <<"a", "b", "c", "d", "e", "f", "g", "h", "i", "j", "k", "l", "m",
               "n", "o", "p", "q", "r", "s", "t", "u", "v", "w", "x", "y", "z">>

\* str.lower() on one character.
LowerChar(c) ==
    IF \E i \in 1..26 : UpperCase[i] = c
    THEN LowerCase[CHOOSE i \in 1..26 : UpperCase[i] = c]
    ELSE c

\* str.lower()
Lower(s) == [i \in 1..Len(s) |-> LowerChar(s[i])]

Whitespace == {" ", "\t", "\n", "\r"}

\* str.strip(): drops leading and trailing whitespace.
RECURSIVE LStrip(_)
LStrip(s) ==
    IF s # <<>> /\ Head(s) \in Whitespace THEN LStrip(Tail(s)) ELSE s

RECURSIVE RStrip(_)
RStrip(s) ==
    IF s # <<>> /\ s[Len(s)] \in Whitespace
    THEN RStrip(SubSeq(s, 1, Len(s) - 1)) ELSE s

Strip(s) == RStrip(LStrip(s))

(***************************************************************************)
(* Category texts.                                                         *)
(***************************************************************************)
CATEGORIAS_GASTO ==
    << <<"A","l","i","m","e","n","t","a","c","i","ó","n">>,
       <<"T","r","a","n","s","p","o","r","t","e">>,
       <<"V","i","v","i","e","n","d","a">>,
       <<"S","a","l","u","d">>,
       <<"D","e","s","e","o","s">>,
       <<"S","u","s","c","r","i","p","c","i","o","n","e","s">>,
       <<"E","d","u","c","a","c","i","ó","n">>,
       <<"D","e","u","d","a","s">>,
       <<"A","h","o","r","r","o">>,
       <<"S","e","r","v","i","c","i","o","s">>,
       <<"E","f","e","c","t","i","v","o">>,
       <<"M","e","r","c","a","d","o">> >>

CatDeseos == CATEGORIAS_GASTO[5]
CatAhorro == CATEGORIAS_GASTO[9]
CatMercado == CATEGORIAS_GASTO[12]
\* "  AHORRO "
CatAhorroSp == <<" ", " ", "A", "H", "O", "R", "R", "O", " ">>
\* "anything-else"
CatOther == <<"a","n","y","t","h","i","n","g","-","e","l","s","e">>
\* "Ahorros"
CatAhorros == <<"A","h","o","r","r","o","s">>

\* Mutation of clasificar_bucket: compares without strip()/lower().
clasificar_bucket_raw(categoria) ==
    IF categoria = <<"d","e","s","e","o","s">> THEN "Deseos"
    ELSE IF categoria = <<"a","h","o","r","r","o">> THEN "Ahorro"
    ELSE "Necesidades"

clasificar_bucket(categoria) ==
    IF Lower(Strip(categoria)) = <<"d","e","s","e","o","s">> THEN "Deseos"
    ELSE IF Lower(Strip(categoria)) = <<"a","h","o","r","r","o">> THEN "Ahorro"
    ELSE "Necesidades"

(***************************************************************************)
(* datetime.strptime(fecha, "%Y-%m-%d") and date.strftime("%Y-%m-%d").     *)
(***************************************************************************)
\* %Y : \d\d\d\d
YearFieldOk(f) == Len(f) = 4 /\ \A i \in 1..4 : f[i] \in Digits

\* %m : 1[0-2]|0[1-9]|[1-9]
MonthFieldOk(f) ==
    \/ Len(f) = 2 /\ f[1] = "1" /\ f[2] \in {"0", "1", "2"}
    \/ Len(f) = 2 /\ f[1] = "0" /\ f[2] \in Digits \ {"0"}
    \/ Len(f) = 1 /\ f[1] \in Digits \ {"0"}

\* %d : 3[0-1]|[1-2]\d|0[1-9]|[1-9]| [1-9]
DayFieldOk(f) ==
    \/ Len(f) = 2 /\ f[1] = "3" /\ f[2] \in {"0", "1"}
    \/ Len(f) = 2 /\ f[1] \in {"1", "2"} /\ f[2] \in Digits
    \/ Len(f) = 2 /\ f[1] = "0" /\ f[2] \in Digits \ {"0"}
    \/ Len(f) = 1 /\ f[1] \in Digits \ {"0"}
    \/ Len(f) = 2 /\ f[1] = " " /\ f[2] \in Digits \ {"0"}

RECURSIVE FieldVal(_)
FieldVal(f) ==
    IF f = <<>> THEN 0
    ELSE IF f[Len(f)] = " " THEN 0
    ELSE 10 * FieldVal(SubSeq(f, 1, Len(f) - 1)) + DigitVal(f[Len(f)])

IsLeap(y) == (y % 4 = 0 /\ y % 100 # 0) \/ y % 400 = 0

DaysInMonth(y, m) ==
    IF m = 2 THEN (IF IsLeap(y) THEN 29 ELSE 28)
    ELSE IF m \in {4, 6, 9, 11} THEN 30 ELSE 31

\* Position of the second "-" of a text that matches the format, 0 if none.
SecondDash(s) ==
    IF \E j \in 7..(Len(s) - 1) : s[j] = "-" /\ \A k \in 6..(j - 1) : s[k] # "-"
    THEN CHOOSE j \in 7..(Len(s) - 1) : s[j] = "-" /\ \A k \in 6..(j - 1) : s[k] # "-"
    ELSE 0

\* The format regex matches the whole text.
MatchesFormat(s) ==
    /\ Len(s) >= 8
    /\ YearFieldOk(SubSeq(s, 1, 4))
    /\ s[5] = "-"
    /\ SecondDash(s) # 0
    /\ MonthFieldOk(SubSeq(s, 6, SecondDash(s) - 1))
    /\ DayFieldOk(SubSeq(s, SecondDash(s) + 1, Len(s)))

\* Result of strptime: ok = FALSE stands for the ValueError it raises.
strptime(s) ==
    IF ~MatchesFormat(s) THEN [ok |-> FALSE, year |-> 0, month |-> 0, day |-> 0]
    ELSE LET y == FieldVal(SubSeq(s, 1, 4))
             m == FieldVal(SubSeq(s, 6, SecondDash(s) - 1))
             d == FieldVal(SubSeq(s, SecondDash(s) + 1, Len(s)))
         IN  IF y >= 1 /\ d <= DaysInMonth(y, m)
             THEN [ok |-> TRUE, year |-> y, month |-> m, day |-> d]
             ELSE [ok |-> FALSE, year |-> 0, month |-> 0, day |-> 0]

DigitChar(n) == AsciiOrder[Ord("0") + n]

\* date.strftime("%Y-%m-%d") for years 1000..9999: zero-padded fields.
strftime(d) ==
    << DigitChar(d.year \div 1000), DigitChar((d.year \div 100) % 10),
       DigitChar((d.year \div 10) % 10), DigitChar(d.year % 10), "-",
       DigitChar(d.month \div 10), DigitChar(d.month % 10), "-",
       DigitChar(d.day \div 10), DigitChar(d.day % 10) >>

(***************************************************************************)
(* The record store: tables ingresos and gastos (inicializar_base_datos).  *)
(***************************************************************************)
\* ingresos, gastos: the rows of the two tables.
\* seq_ingresos, seq_gastos: their AUTOINCREMENT counters (sqlite_sequence).
\* last: the last call made: its name, its arguments, the id it assigned or
\*       was given, its outcome and the balance it displayed (<<>> if none).
\* borrados_ingresos, borrados_gastos: history of the ids of the rows that
\*       were deleted from each table.
VARIABLES ingresos, gastos, seq_ingresos, seq_gastos, last, borrados_ingresos, borrados_gastos

vars == <<ingresos, gastos, seq_ingresos, seq_gastos, last, borrados_ingresos, borrados_gastos>>

\* An absent optional argument (Python None) is <<>>, a present one <<x>>.
None == <<>>
Some(x) == <<x>>

\* Both tables are created empty (CREATE TABLE IF NOT EXISTS on a new file).
inicializar_base_datos ==
    /\ ingresos = {}
    /\ gastos = {}
    /\ seq_ingresos = 0
    /\ seq_gastos = 0

Init ==
    /\ inicializar_base_datos
    /\ last = [op |-> "inicializar_base_datos", args |-> <<>>, id |-> 0,
               err |-> "none", shown |-> <<>>]
    /\ borrados_ingresos = {}
    /\ borrados_gastos = {}

(***************************************************************************)
(* Inserts.                                                                *)
(***************************************************************************)
\* Mutation of monto: divides the percentage as an integer before multiplying.
monto_truncado(valor_total, porc) == valor_total * (porc \div 100)

\* valor_total * (porc / 100)
monto(valor_total, porc) == (valor_total * porc) \div 100

\* Mutation of FilaIngreso: the wants amount is stored in the savings column.
FilaIngresoCruzada(id, fecha, concepto, valor_total, porc_necesidades, porc_deseos, porc_ahorro) ==
    [id_ingreso |-> id, fecha |-> fecha,
     anio |-> strptime(fecha).year, mes |-> strptime(fecha).month,
     concepto |-> concepto, valor_total |-> valor_total,
     porc_necesidades |-> porc_necesidades, porc_deseos |-> porc_deseos,
     porc_ahorro |-> porc_ahorro,
     monto_necesidades |-> monto(valor_total, porc_necesidades),
     monto_deseos |-> monto(valor_total, porc_deseos),
     monto_ahorro |-> monto(valor_total, porc_deseos)]

\* The row insertar_ingreso writes.
FilaIngreso(id, fecha, concepto, valor_total, porc_necesidades, porc_deseos, porc_ahorro) ==
    [id_ingreso |-> id, fecha |-> fecha,
     anio |-> strptime(fecha).year, mes |-> strptime(fecha).month,
     concepto |-> concepto, valor_total |-> valor_total,
     porc_necesidades |-> porc_necesidades, porc_deseos |-> porc_deseos,
     porc_ahorro |-> porc_ahorro,
     monto_necesidades |-> monto(valor_total, porc_necesidades),
     monto_deseos |-> monto(valor_total, porc_deseos),
     monto_ahorro |-> monto(valor_total, porc_ahorro)]

\* The row insertar_gasto writes.
FilaGasto(id, fecha, categoria, concepto, valor) ==
    [id_gasto |-> id, fecha |-> fecha,
     anio |-> strptime(fecha).year, mes |-> strptime(fecha).month,
     categoria |-> categoria, concepto |-> concepto, valor |-> valor]

\* Mutation of insertar_ingreso: the id is one more than the largest id in
\* the table (INTEGER PRIMARY KEY without AUTOINCREMENT).
insertar_ingreso_max_rowid(fecha, concepto, valor_total, porc_necesidades, porc_deseos, porc_ahorro) ==
    LET ids == {r.id_ingreso : r \in ingresos}
        nuevo == IF ids = {} THEN 1
                 ELSE (CHOOSE x \in ids : \A y \in ids : y <= x) + 1
    IN  IF strptime(fecha).ok
        THEN /\ ingresos' = ingresos \cup
                    {FilaIngreso(nuevo, fecha, concepto, valor_total,
                                 porc_necesidades, porc_deseos, porc_ahorro)}
             /\ seq_ingresos' = seq_ingresos + 1
        ELSE UNCHANGED <<ingresos, seq_ingresos>>

\* strptime raises ValueError before the INSERT is reached.
insertar_ingreso(fecha, concepto, valor_total, porc_necesidades, porc_deseos, porc_ahorro) ==
    IF strptime(fecha).ok
    THEN /\ ingresos' = ingresos \cup
                {FilaIngreso(seq_ingresos + 1, fecha, concepto, valor_total,
                             porc_necesidades, porc_deseos, porc_ahorro)}
         /\ seq_ingresos' = seq_ingresos + 1
    ELSE UNCHANGED <<ingresos, seq_ingresos>>

insertar_gasto(fecha, categoria, concepto, valor) ==
    IF strptime(fecha).ok
    THEN /\ gastos' = gastos \cup
                {FilaGasto(seq_gastos + 1, fecha, categoria, concepto, valor)}
         /\ seq_gastos' = seq_gastos + 1
    ELSE UNCHANGED <<gastos, seq_gastos>>

(***************************************************************************)
(* Queries.                                                                *)
(***************************************************************************)
\* Mutation of Where: a month given without a year filters by month.
WhereConMes(rows, anio, mes) ==
    IF anio # None /\ mes # None
    THEN {r \in rows : r.anio = anio[1] /\ r.mes = mes[1]}
    ELSE IF anio # None
    THEN {r \in rows : r.anio = anio[1]}
    ELSE IF mes # None
    THEN {r \in rows : r.mes = mes[1]}
    ELSE rows

\* The WHERE clause built from the optional year and month.
Where(rows, anio, mes) ==
    IF anio # None /\ mes # None
    THEN {r \in rows : r.anio = anio[1] /\ r.mes = mes[1]}
    ELSE IF anio # None
    THEN {r \in rows : r.anio = anio[1]}
    ELSE rows

\* ORDER BY fecha DESC: the text column compared bytewise; rows of equal
\* fecha come out in rowid order.
RECURSIVE OrderByFechaDesc(_, _)
OrderByFechaDesc(rows, idcol) ==
    IF rows = {} THEN <<>>
    ELSE LET first == CHOOSE r \in rows : \A q \in rows \ {r} :
                          \/ TextLess(q.fecha, r.fecha)
                          \/ q.fecha = r.fecha /\ r[idcol] < q[idcol]
         IN  <<first>> \o OrderByFechaDesc(rows \ {first}, idcol)

\* SELECT * FROM ingresos [WHERE ...] ORDER BY fecha DESC, on the table
\* content db_ingresos.
SelectIngresos(db_ingresos, anio, mes) ==
    OrderByFechaDesc(Where(db_ingresos, anio, mes), "id_ingreso")

SelectGastos(db_gastos, anio, mes) ==
    OrderByFechaDesc(Where(db_gastos, anio, mes), "id_gasto")

obtener_ingresos(anio, mes) == SelectIngresos(ingresos, anio, mes)

obtener_gastos(anio, mes) == SelectGastos(gastos, anio, mes)

\* Mutation of SortDesc: ascending.
RECURSIVE SortAsc(_)
SortAsc(S) ==
    IF S = {} THEN <<>>
    ELSE LET mn == CHOOSE x \in S : \A y \in S : x <= y
         IN  <<mn>> \o SortAsc(S \ {mn})

\* ORDER BY anio DESC
RECURSIVE SortDesc(_)
SortDesc(S) ==
    IF S = {} THEN <<>>
    ELSE LET mx == CHOOSE x \in S : \A y \in S : x >= y
         IN  <<mx>> \o SortDesc(S \ {mx})

\* now is datetime.now().year, read from the clock when the call is made.
obtener_anios_disponibles(now) ==
    LET anios == SortDesc({r.anio : r \in ingresos} \cup {r.anio : r \in gastos})
    IN  IF anios # <<>> THEN anios ELSE <<now>>

(***************************************************************************)
(* Deletes.                                                                *)
(***************************************************************************)
\* Mutation of DeleteWhereId: an absent id removes the newest row.
DeleteWhereIdOrLast(rows, idcol, id) ==
    IF \E r \in rows : r[idcol] = id
    THEN {r \in rows : r[idcol] # id}
    ELSE {r \in rows : \E q \in rows : q[idcol] > r[idcol]}

\* DELETE FROM t WHERE id = ?
DeleteWhereId(rows, idcol, id) == {r \in rows : r[idcol] # id}

eliminar_ingreso(id_ingreso) ==
    /\ ingresos' = DeleteWhereId(ingresos, "id_ingreso", id_ingreso)
    /\ UNCHANGED seq_ingresos

eliminar_gasto(id_gasto) ==
    /\ gastos' = DeleteWhereId(gastos, "id_gasto", id_gasto)
    /\ UNCHANGED seq_gastos

(***************************************************************************)
(* Period summary.                                                         *)
(***************************************************************************)
\* pandas Series.sum() of one column of a query result.
RECURSIVE SumCol(_, _)
SumCol(df, col) ==
    IF df = <<>> THEN 0 ELSE Head(df)[col] + SumCol(Tail(df), col)

\* df[df["bucket"] == bucket] after df["bucket"] = categoria.apply(clasificar_bucket)
FilterBucket(df, bucket) ==
    SelectSeq(df, LAMBDA r : clasificar_bucket(r.categoria) = bucket)

\* Mutation of GastadoAhorro: savings expenses are summed like the others.
GastadoAhorroSumado(gastos_df) == SumCol(FilterBucket(gastos_df, "Ahorro"), "valor")

\* gastado["Ahorro"] is set to 0.0 whatever the expenses are.
GastadoAhorro(gastos_df) == 0

\* Mutation of resumen_buckets: the summary of the whole year.
resumen_buckets_anual(anio, mes) ==
    LET ingresos_df == obtener_ingresos(Some(anio), None)
        gastos_df == obtener_gastos(Some(anio), None)
        presupuesto ==
            [Necesidades |-> SumCol(ingresos_df, "monto_necesidades"),
             Deseos |-> SumCol(ingresos_df, "monto_deseos"),
             Ahorro |-> SumCol(ingresos_df, "monto_ahorro")]
        gastado ==
            [Necesidades |-> SumCol(FilterBucket(gastos_df, "Necesidades"), "valor"),
             Deseos |-> SumCol(FilterBucket(gastos_df, "Deseos"), "valor"),
             Ahorro |-> GastadoAhorro(gastos_df)]
        disponible ==
            [Necesidades |-> presupuesto.Necesidades - gastado.Necesidades,
             Deseos |-> presupuesto.Deseos - gastado.Deseos,
             Ahorro |-> presupuesto.Ahorro]
    IN  [presupuesto |-> presupuesto, gastado |-> gastado, disponible |-> disponible]

resumen_buckets(anio, mes) ==
    LET ingresos_df == obtener_ingresos(Some(anio), Some(mes))
        gastos_df == obtener_gastos(Some(anio), Some(mes))
        presupuesto ==
            [Necesidades |-> IF ingresos_df # <<>>
                             THEN SumCol(ingresos_df, "monto_necesidades") ELSE 0,
             Deseos |-> IF ingresos_df # <<>>
                        THEN SumCol(ingresos_df, "monto_deseos") ELSE 0,
             Ahorro |-> IF ingresos_df # <<>>
                        THEN SumCol(ingresos_df, "monto_ahorro") ELSE 0]
        gastado ==
            IF gastos_df # <<>>
            THEN [Necesidades |-> SumCol(FilterBucket(gastos_df, "Necesidades"), "valor"),
                  Deseos |-> SumCol(FilterBucket(gastos_df, "Deseos"), "valor"),
                  Ahorro |-> GastadoAhorro(gastos_df)]
            ELSE [Necesidades |-> 0, Deseos |-> 0, Ahorro |-> 0]
        disponible ==
            [Necesidades |-> presupuesto.Necesidades - gastado.Necesidades,
             Deseos |-> presupuesto.Deseos - gastado.Deseos,
             Ahorro |-> presupuesto.Ahorro]
    IN  [presupuesto |-> presupuesto, gastado |-> gastado, disponible |-> disponible]

(***************************************************************************)
(* Balances computed by the pages.                                         *)
(***************************************************************************)
\* Analysis page: saldo_neto = total_ingresos - total_gastos - total_ahorro
saldo_neto(anio, mes) ==
    LET ingresos_periodo == obtener_ingresos(Some(anio), Some(mes))
        gastos_periodo == obtener_gastos(Some(anio), Some(mes))
        total_ingresos == IF ingresos_periodo # <<>>
                          THEN SumCol(ingresos_periodo, "valor_total") ELSE 0
        total_gastos == IF gastos_periodo # <<>>
                        THEN SumCol(gastos_periodo, "valor") ELSE 0
        total_ahorro == IF ingresos_periodo # <<>>
                        THEN SumCol(ingresos_periodo, "monto_ahorro") ELSE 0
    IN  total_ingresos - total_gastos - total_ahorro

\* Expense form, before saving.
saldo_cuenta(anio_gasto, mes_gasto) ==
    LET total_ingresos == SumCol(obtener_ingresos(Some(anio_gasto), Some(mes_gasto)), "valor_total")
        total_gastos == SumCol(obtener_gastos(Some(anio_gasto), Some(mes_gasto)), "valor")
        total_ahorro == SumCol(obtener_ingresos(Some(anio_gasto), Some(mes_gasto)), "monto_ahorro")
    IN  total_ingresos - total_gastos - total_ahorro

\* Expense form, recomputed after the expense is saved; db_ingresos and
\* db_gastos are the tables as they are once insertar_gasto has returned.
saldo_cuenta_post(db_ingresos, db_gastos, anio_gasto, mes_gasto) ==
    LET total_ingresos_post == SumCol(SelectIngresos(db_ingresos, Some(anio_gasto), Some(mes_gasto)), "valor_total")
        total_gastos_post == SumCol(SelectGastos(db_gastos, Some(anio_gasto), Some(mes_gasto)), "valor")
    IN  total_ingresos_post - total_gastos_post

(***************************************************************************)
(* Inputs.                                                                 *)
(***************************************************************************)
\* "2024-03-01"
F_20240301 == <<"2","0","2","4","-","0","3","-","0","1">>
\* "2024-03-05"
F_20240305 == <<"2","0","2","4","-","0","3","-","0","5">>
\* "2024-3-5": accepted by strptime, not zero-padded
F_2024_3_5 == <<"2","0","2","4","-","3","-","5">>
\* "2024-10-01"
F_20241001 == <<"2","0","2","4","-","1","0","-","0","1">>
\* "2023-12-31"
F_20231231 == <<"2","0","2","3","-","1","2","-","3","1">>
\* "2024-13-01": rejected by strptime
F_20241301 == <<"2","0","2","4","-","1","3","-","0","1">>

\* Arguments of direct calls of insertar_ingreso:
\* <<fecha, concepto, valor_total, porc_necesidades, porc_deseos, porc_ahorro>>
IngresoArgs ==
    { <<F_20240301, "Salary", 100000, 80, 10, 10>>,
      <<F_2024_3_5, "Bonus", 50000, 50, 30, 20>>,
      <<F_20241001, "Salary", 100000, 80, 10, 10>>,
      <<F_20231231, "", 0, 60, 30, 20>>,
      <<F_20240301, "Bonus", 20000, 0, 0, 100>>,
      <<F_20241301, "Salary", 100000, 80, 10, 10>> }

\* Arguments of direct calls of insertar_gasto: <<fecha, categoria, concepto, valor>>
GastoArgs ==
    { <<F_20240305, CatMercado, "Market", 15000>>,
      <<F_20240301, CatAhorroSp, "Savings", 5000>>,
      <<F_2024_3_5, CatDeseos, "Cinema", 3000>>,
      <<F_20241001, CatOther, "Other", 7000>>,
      <<F_20231231, CatAhorros, "", 0>>,
      <<F_20241301, CatAhorro, "Savings", 5000>> }

\* Values of the widgets of the two forms.
FormFechas == { [year |-> 2024, month |-> 3, day |-> 1],
                [year |-> 2023, month |-> 12, day |-> 31] }
FormConceptos == {"", "Salary"}
FormValoresIngreso == {0, 100000}
FormPorcentajes == { <<80, 10, 10>>, <<50, 30, 20>>, <<60, 30, 20>> }
FormCategorias == {CatDeseos, CatAhorro, CatMercado}
FormValoresGasto == {0, 15000}

\* Years and months the properties range over.
Anios == {2023, 2024}
Meses == {3, 10, 12}

Call(op, args, id, err, shown) ==
    [op |-> op, args |-> args, id |-> id, err |-> err, shown |-> shown]

(***************************************************************************)
(* Direct calls of the data-access functions.                              *)
(***************************************************************************)
InsertarIngreso ==
    \E a \in IngresoArgs :
        /\ seq_ingresos + seq_gastos < MaxRegistros
        /\ insertar_ingreso(a[1], a[2], a[3], a[4], a[5], a[6])
        /\ last' = IF strptime(a[1]).ok
                   THEN Call("insertar_ingreso", a, seq_ingresos + 1, "none", <<>>)
                   ELSE Call("insertar_ingreso", a, 0, "ValueError", <<>>)
        /\ UNCHANGED <<gastos, seq_gastos, borrados_ingresos, borrados_gastos>>

InsertarGasto ==
    \E a \in GastoArgs :
        /\ seq_ingresos + seq_gastos < MaxRegistros
        /\ insertar_gasto(a[1], a[2], a[3], a[4])
        /\ last' = IF strptime(a[1]).ok
                   THEN Call("insertar_gasto", a, seq_gastos + 1, "none", <<>>)
                   ELSE Call("insertar_gasto", a, 0, "ValueError", <<>>)
        /\ UNCHANGED <<ingresos, seq_ingresos, borrados_ingresos, borrados_gastos>>

EliminarIngreso ==
    \E id \in 1..(MaxRegistros + 1) :
        /\ eliminar_ingreso(id)
        /\ last' = Call("eliminar_ingreso", <<id>>, id, "none", <<>>)
        /\ borrados_ingresos' = borrados_ingresos \cup {r.id_ingreso : r \in ingresos \ ingresos'}
        /\ UNCHANGED <<gastos, seq_gastos, borrados_gastos>>

EliminarGasto ==
    \E id \in 1..(MaxRegistros + 1) :
        /\ eliminar_gasto(id)
        /\ last' = Call("eliminar_gasto", <<id>>, id, "none", <<>>)
        /\ borrados_gastos' = borrados_gastos \cup {r.id_gasto : r \in gastos \ gastos'}
        /\ UNCHANGED <<ingresos, seq_ingresos, borrados_ingresos>>

Next == InsertarIngreso \/ InsertarGasto \/ EliminarIngreso \/ EliminarGasto

Spec == Init /\ [][Next]_vars

(***************************************************************************)
(* The pages: form submissions and delete buttons.                         *)
(***************************************************************************)
\* Mutation of FormIngreso: the sum of the percentages is not checked.
FormIngresoSinSuma(fecha_ingreso, concepto_ingreso, valor_ingreso, porc_necesidades, porc_deseos, porc_ahorro) ==
    LET args == <<fecha_ingreso, concepto_ingreso, valor_ingreso,
                  porc_necesidades, porc_deseos, porc_ahorro>>
    IN  /\ seq_ingresos + seq_gastos < MaxRegistros
        /\ IF concepto_ingreso # "" /\ valor_ingreso > 0
           THEN /\ insertar_ingreso(strftime(fecha_ingreso), concepto_ingreso,
                                    valor_ingreso, porc_necesidades, porc_deseos, porc_ahorro)
                /\ last' = Call("form_ingreso", args, seq_ingresos + 1, "none", <<>>)
           ELSE /\ UNCHANGED <<ingresos, seq_ingresos>>
                /\ last' = Call("form_ingreso", args, 0, "st.error", <<>>)
        /\ UNCHANGED <<gastos, seq_gastos, borrados_ingresos, borrados_gastos>>

\* "Guardar Ingreso" pressed with the widget values given.
FormIngreso(fecha_ingreso, concepto_ingreso, valor_ingreso, porc_necesidades, porc_deseos, porc_ahorro) ==
    LET args == <<fecha_ingreso, concepto_ingreso, valor_ingreso,
                  porc_necesidades, porc_deseos, porc_ahorro>>
    IN  /\ seq_ingresos + seq_gastos < MaxRegistros
        /\ IF concepto_ingreso # "" /\ valor_ingreso > 0
              /\ porc_necesidades + porc_deseos + porc_ahorro = 100
           THEN /\ insertar_ingreso(strftime(fecha_ingreso), concepto_ingreso,
                                    valor_ingreso, porc_necesidades, porc_deseos, porc_ahorro)
                /\ last' = Call("form_ingreso", args, seq_ingresos + 1, "none", <<>>)
           ELSE /\ UNCHANGED <<ingresos, seq_ingresos>>
                /\ last' = Call("form_ingreso", args, 0, "st.error", <<>>)
        /\ UNCHANGED <<gastos, seq_gastos, borrados_ingresos, borrados_gastos>>

FormIngresoSubmit ==
    \E fecha_ingreso \in FormFechas, concepto_ingreso \in FormConceptos,
       valor_ingreso \in FormValoresIngreso, porc \in FormPorcentajes :
        FormIngreso(fecha_ingreso, concepto_ingreso, valor_ingreso,
                    porc[1], porc[2], porc[3])

\* "Guardar Gasto" pressed with the widget values given; after saving, the
\* handler recomputes and shows the balance of the period.
FormGasto(fecha_gasto, categoria_gasto, concepto_gasto, valor_gasto) ==
    LET args == <<fecha_gasto, categoria_gasto, concepto_gasto, valor_gasto>>
    IN  /\ seq_ingresos + seq_gastos < MaxRegistros
        /\ IF concepto_gasto # "" /\ valor_gasto > 0
           THEN /\ insertar_gasto(strftime(fecha_gasto), categoria_gasto,
                                  concepto_gasto, valor_gasto)
                /\ last' = Call("form_gasto", args, seq_gastos + 1, "none",
                                <<saldo_cuenta_post(ingresos, gastos',
                                                    fecha_gasto.year, fecha_gasto.month)>>)
           ELSE /\ UNCHANGED <<gastos, seq_gastos>>
                /\ last' = Call("form_gasto", args, 0, "st.error", <<>>)
        /\ UNCHANGED <<ingresos, seq_ingresos, borrados_ingresos, borrados_gastos>>

FormGastoSubmit ==
    \E fecha_gasto \in FormFechas, categoria_gasto \in FormCategorias,
       concepto_gasto \in FormConceptos, valor_gasto \in FormValoresGasto :
        FormGasto(fecha_gasto, categoria_gasto, concepto_gasto, valor_gasto)

\* "Eliminar Ingreso" pressed: the id comes from the select box over
\* obtener_ingresos(), which is only drawn when the table is not empty.
BotonEliminarIngreso ==
    \E i \in 1..Len(obtener_ingresos(None, None)) :
        LET id_eliminar == obtener_ingresos(None, None)[i].id_ingreso
        IN  /\ eliminar_ingreso(id_eliminar)
            /\ last' = Call("boton_eliminar_ingreso", <<id_eliminar>>, id_eliminar, "none", <<>>)
            /\ borrados_ingresos' = borrados_ingresos \cup {r.id_ingreso : r \in ingresos \ ingresos'}
            /\ UNCHANGED <<gastos, seq_gastos, borrados_gastos>>

BotonEliminarGasto ==
    \E i \in 1..Len(obtener_gastos(None, None)) :
        LET id_eliminar == obtener_gastos(None, None)[i].id_gasto
        IN  /\ eliminar_gasto(id_eliminar)
            /\ last' = Call("boton_eliminar_gasto", <<id_eliminar>>, id_eliminar, "none", <<>>)
            /\ borrados_gastos' = borrados_gastos \cup {r.id_gasto : r \in gastos \ gastos'}
            /\ UNCHANGED <<ingresos, seq_ingresos, borrados_ingresos>>

NextUI ==
    FormIngresoSubmit \/ FormGastoSubmit \/ BotonEliminarIngreso \/ BotonEliminarGasto

SpecUI == Init /\ [][NextUI]_vars

(***************************************************************************)
(* Reference definitions for the properties: sums over the rows of a       *)
(* table taken as a set, and the expected bucket of each category text.    *)
(***************************************************************************)
RECURSIVE SumField(_, _)
SumField(S, col) ==
    IF S = {} THEN 0
    ELSE LET r == CHOOSE x \in S : TRUE
         IN  r[col] + SumField(S \ {r}, col)

IngresosDe(anio, mes) == {r \in ingresos : r.anio = anio /\ r.mes = mes}

GastosDe(anio, mes) == {r \in gastos : r.anio = anio /\ r.mes = mes}

ExpectedBucket(categoria) ==
    IF categoria \in {CatDeseos} THEN "Deseos"
    ELSE IF categoria \in {CatAhorro, CatAhorroSp} THEN "Ahorro"
    ELSE "Necesidades"

GastosDeBucket(anio, mes, bucket) ==
    {r \in GastosDe(anio, mes) : ExpectedBucket(r.categoria) = bucket}

NetBalance(anio, mes) ==
    SumField(IngresosDe(anio, mes), "valor_total")
    - SumField(GastosDe(anio, mes), "valor")
    - SumField(IngresosDe(anio, mes), "monto_ahorro")

(***************************************************************************)
(* C1: in every reachable store and for every period, resumen_buckets      *)
(* returns as budget of each bucket the sum of that bucket's amount over   *)
(* exactly the incomes of the period, as spent Necesidades / Deseos the    *)
(* sum of the values of exactly the expenses of the period classified to   *)
(* that bucket, as available Necesidades / Deseos budget minus spent, and  *)
(* nine zeros when the period has no rows.                                 *)
(***************************************************************************)
C1_Summary ==
    \A anio \in Anios, mes \in Meses :
        LET r == resumen_buckets(anio, mes)
        IN  /\ r.presupuesto.Necesidades = SumField(IngresosDe(anio, mes), "monto_necesidades")
            /\ r.presupuesto.Deseos = SumField(IngresosDe(anio, mes), "monto_deseos")
            /\ r.presupuesto.Ahorro = SumField(IngresosDe(anio, mes), "monto_ahorro")
            /\ r.gastado.Necesidades = SumField(GastosDeBucket(anio, mes, "Necesidades"), "valor")
            /\ r.gastado.Deseos = SumField(GastosDeBucket(anio, mes, "Deseos"), "valor")
            /\ r.disponible.Necesidades = r.presupuesto.Necesidades - r.gastado.Necesidades
            /\ r.disponible.Deseos = r.presupuesto.Deseos - r.gastado.Deseos
            /\ (IngresosDe(anio, mes) = {} /\ GastosDe(anio, mes) = {}
                  => r = [presupuesto |-> [Necesidades |-> 0, Deseos |-> 0, Ahorro |-> 0],
                          gastado |-> [Necesidades |-> 0, Deseos |-> 0, Ahorro |-> 0],
                          disponible |-> [Necesidades |-> 0, Deseos |-> 0, Ahorro |-> 0]])

\* A period with an income and an expense, while the same year holds a row
\* of another month.
C1_Witness ==
    \E anio \in Anios, mes \in Meses :
        /\ IngresosDe(anio, mes) # {}
        /\ GastosDe(anio, mes) # {}
        /\ resumen_buckets(anio, mes).gastado.Necesidades > 0
        /\ \E r \in ingresos \cup gastos : r.anio = anio /\ r.mes # mes

(***************************************************************************)
(* C2: in every reachable store and for every period, spent Ahorro is 0    *)
(* and available Ahorro equals budget Ahorro, which is the sum of the      *)
(* savings amounts of the incomes of the period whatever expenses the      *)
(* period holds (an expense classified to Ahorro changes neither).         *)
(***************************************************************************)
C2_SavingsNeverSpent ==
    \A anio \in Anios, mes \in Meses :
        LET r == resumen_buckets(anio, mes)
        IN  /\ r.gastado.Ahorro = 0
            /\ r.disponible.Ahorro = r.presupuesto.Ahorro
            /\ r.disponible.Ahorro = SumField(IngresosDe(anio, mes), "monto_ahorro")

\* An expense classified to Ahorro has just been saved in a period whose
\* savings budget is positive.
C2_Witness ==
    /\ last.op = "insertar_gasto"
    /\ \E g \in gastos :
          /\ g.id_gasto = last.id
          /\ ExpectedBucket(g.categoria) = "Ahorro"
          /\ resumen_buckets(g.anio, g.mes).presupuesto.Ahorro > 0

(***************************************************************************)
(* C3: clasificar_bucket returns one of the three buckets for every        *)
(* category: Deseos for "Deseos", Ahorro for "Ahorro" and "  AHORRO ",     *)
(* Necesidades for "Mercado", "anything-else" and every other text.        *)
(***************************************************************************)
C3_Classify ==
    \A g \in gastos :
        /\ clasificar_bucket(g.categoria) \in {"Necesidades", "Deseos", "Ahorro"}
        /\ clasificar_bucket(g.categoria) = ExpectedBucket(g.categoria)

\* The store holds "  AHORRO ", "Deseos" and a category of the default bucket.
C3_Witness ==
    /\ \E g \in gastos : g.categoria = CatAhorroSp
    /\ \E g \in gastos : g.categoria = CatDeseos
    /\ \E g \in gastos : g.categoria \in {CatMercado, CatOther, CatAhorros}

(***************************************************************************)
(* C4: every net balance the pages compute for a period is total income    *)
(* minus total expenses minus total savings of that period: saldo_neto of  *)
(* the analysis page, saldo_cuenta of the expense form, and the balance    *)
(* the expense form shows right after an expense is saved.                 *)
(***************************************************************************)
C4_NetBalance ==
    /\ \A anio \in Anios, mes \in Meses :
          /\ saldo_neto(anio, mes) = NetBalance(anio, mes)
          /\ saldo_cuenta(anio, mes) = NetBalance(anio, mes)
    /\ (last.op = "form_gasto" /\ last.err = "none"
          => last.shown = <<NetBalance(last.args[1].year, last.args[1].month)>>)

(***************************************************************************)
(* C5: obtener_ingresos and obtener_gastos return all rows of the table    *)
(* with no argument, exactly the rows of the year with a year, exactly the *)
(* rows of the year and month with both, each row once, and no row comes   *)
(* before a row with a later date.                                         *)
(***************************************************************************)
DateNum(r) ==
    strptime(r.fecha).year * 10000 + strptime(r.fecha).month * 100 + strptime(r.fecha).day

QueryIs(q, expected) ==
    /\ {q[i] : i \in 1..Len(q)} = expected
    /\ Len(q) = Cardinality(expected)

DateDescending(q) ==
    \A i, j \in 1..Len(q) : i < j => DateNum(q[i]) >= DateNum(q[j])

C5_Filters ==
    /\ QueryIs(obtener_ingresos(None, None), ingresos)
    /\ QueryIs(obtener_gastos(None, None), gastos)
    /\ \A anio \in Anios :
          /\ QueryIs(obtener_ingresos(Some(anio), None), {r \in ingresos : r.anio = anio})
          /\ QueryIs(obtener_gastos(Some(anio), None), {r \in gastos : r.anio = anio})
          /\ \A mes \in Meses :
                /\ QueryIs(obtener_ingresos(Some(anio), Some(mes)), IngresosDe(anio, mes))
                /\ QueryIs(obtener_gastos(Some(anio), Some(mes)), GastosDe(anio, mes))

C5_Ordered ==
    /\ DateDescending(obtener_ingresos(None, None))
    /\ DateDescending(obtener_gastos(None, None))
    /\ \A anio \in Anios :
          /\ DateDescending(obtener_ingresos(Some(anio), None))
          /\ DateDescending(obtener_gastos(Some(anio), None))
          /\ \A mes \in Meses :
                /\ DateDescending(obtener_ingresos(Some(anio), Some(mes)))
                /\ DateDescending(obtener_gastos(Some(anio), Some(mes)))

C5_QueryOrdered == C5_Filters /\ C5_Ordered

(***************************************************************************)
(* C6: eliminar_ingreso / eliminar_gasto with an id that is not in the     *)
(* table raises nothing and leaves both tables as they were; with an id    *)
(* that is in the table it removes exactly that row and leaves the other   *)
(* rows of the table and the whole other table unchanged.                  *)
(***************************************************************************)
C6_Step ==
    /\ last'.op = "eliminar_ingreso" =>
          /\ last'.err = "none"
          /\ gastos' = gastos
          /\ IF \E r \in ingresos : r.id_ingreso = last'.id
             THEN \E r \in ingresos : r.id_ingreso = last'.id /\ ingresos' = ingresos \ {r}
             ELSE ingresos' = ingresos
    /\ last'.op = "eliminar_gasto" =>
          /\ last'.err = "none"
          /\ ingresos' = ingresos
          /\ IF \E r \in gastos : r.id_gasto = last'.id
             THEN \E r \in gastos : r.id_gasto = last'.id /\ gastos' = gastos \ {r}
             ELSE gastos' = gastos

C6_Delete == [][C6_Step]_vars

\* eliminar_ingreso has just been called with an id that was never in the
\* table, while the table holds rows.
C6_Witness ==
    /\ last.op = "eliminar_ingreso"
    /\ last.id \notin borrados_ingresos
    /\ last.id > seq_ingresos
    /\ ingresos # {}
    /\ gastos # {}

(***************************************************************************)
(* C7: after insertar_ingreso(fecha, concepto, valor_total, percentages),  *)
(* obtener_ingresos(year, month of fecha) returns a row with exactly the   *)
(* given fecha, concepto, valor_total and percentages, the year and month  *)
(* of the date and the amounts valor_total * percentage / 100; after       *)
(* eliminar_ingreso of an id, no query returns a row with that id, then    *)
(* or later.                                                               *)
(***************************************************************************)
\* Year and month of each date text of the inputs.
ExpectedPeriod(fecha) ==
    IF fecha \in {F_20240301, F_20240305, F_2024_3_5} THEN <<2024, 3>>
    ELSE IF fecha = F_20241001 THEN <<2024, 10>>
    ELSE <<2023, 12>>

IdsOf(q) == {q[i].id_ingreso : i \in 1..Len(q)}

AllIngresoQueries ==
    {obtener_ingresos(None, None)}
    \cup {obtener_ingresos(Some(anio), None) : anio \in Anios}
    \cup {obtener_ingresos(Some(pm[1]), Some(pm[2])) : pm \in Anios \X Meses}

C7_RoundTrip ==
    /\ (last.op = "insertar_ingreso" /\ last.err = "none") =>
          LET a == last.args
              q == obtener_ingresos(Some(ExpectedPeriod(a[1])[1]), Some(ExpectedPeriod(a[1])[2]))
          IN  \E i \in 1..Len(q) :
                 /\ q[i].id_ingreso = last.id
                 /\ q[i].fecha = a[1]
                 /\ q[i].concepto = a[2]
                 /\ q[i].valor_total = a[3]
                 /\ q[i].porc_necesidades = a[4]
                 /\ q[i].porc_deseos = a[5]
                 /\ q[i].porc_ahorro = a[6]
                 /\ q[i].anio = ExpectedPeriod(a[1])[1]
                 /\ q[i].mes = ExpectedPeriod(a[1])[2]
                 /\ q[i].monto_necesidades * 100 = a[3] * a[4]
                 /\ q[i].monto_deseos * 100 = a[3] * a[5]
                 /\ q[i].monto_ahorro * 100 = a[3] * a[6]
    /\ last.op = "eliminar_ingreso" =>
          \A q \in AllIngresoQueries : last.id \notin IdsOf(q)
    /\ \A id \in borrados_ingresos :
          \A q \in AllIngresoQueries : id \notin IdsOf(q)

\* An income has just been inserted after another income was deleted.
C7_Witness ==
    /\ last.op = "insertar_ingreso"
    /\ last.err = "none"
    /\ last.args[5] # last.args[6]
    /\ borrados_ingresos # {}

(***************************************************************************)
(* C8: obtener_anios_disponibles returns every year that occurs in a row   *)
(* of either table exactly once, no other year, in descending order; when  *)
(* both tables are empty it returns exactly the current year.              *)
(***************************************************************************)
ClockYears == {2025, 2026}

C8_AvailableYears ==
    \A now \in ClockYears :
        LET anios == obtener_anios_disponibles(now)
            present == {r.anio : r \in ingresos \cup gastos}
        IN  IF ingresos = {} /\ gastos = {}
            THEN anios = <<now>>
            ELSE /\ {anios[i] : i \in 1..Len(anios)} = present
                 /\ Len(anios) = Cardinality(present)
                 /\ \A i, j \in 1..Len(anios) : i < j => anios[i] > anios[j]

\* Two years are present and one of them occurs in both tables.
C8_Witness ==
    /\ Cardinality({r.anio : r \in ingresos \cup gastos}) = 2
    /\ {r.anio : r \in ingresos} \cap {r.anio : r \in gastos} # {}

(***************************************************************************)
(* C9: through the forms, insertar_ingreso is called only when the concept *)
(* is not empty, the total is > 0 and the percentages sum to 100, and      *)
(* insertar_gasto only when the concept is not empty and the value is > 0; *)
(* so every stored income has percentages summing to 100 and a positive    *)
(* total, every stored expense a positive value and a non-empty concept,   *)
(* and a rejected submission leaves the store unchanged.                   *)
(***************************************************************************)
IngresoValido(a) == a[2] # "" /\ a[3] > 0 /\ a[4] + a[5] + a[6] = 100

GastoValido(a) == a[3] # "" /\ a[4] > 0

C9_Stored ==
    /\ \A r \in ingresos :
          /\ r.porc_necesidades + r.porc_deseos + r.porc_ahorro = 100
          /\ r.valor_total > 0
    /\ \A g \in gastos : g.valor > 0 /\ g.concepto # ""

C9_Step ==
    /\ C9_Stored'
    /\ last'.op = "form_ingreso" =>
          IF IngresoValido(last'.args)
          THEN gastos' = gastos
          ELSE ingresos' = ingresos /\ gastos' = gastos
    /\ last'.op = "form_gasto" =>
          IF GastoValido(last'.args)
          THEN ingresos' = ingresos
          ELSE ingresos' = ingresos /\ gastos' = gastos

C9_FormsValidate == [][C9_Step]_vars

\* An income submission whose percentages do not sum to 100 has just been
\* rejected while both tables hold rows.
C9_Witness ==
    /\ last.op = "form_ingreso"
    /\ last.err = "st.error"
    /\ last.args[2] # "" /\ last.args[3] > 0
    /\ ingresos # {}
    /\ gastos # {}

(***************************************************************************)
(* C10: for every stored income whose percentages sum to 100, the three    *)
(* amounts sum to valor_total; and for every period whose incomes all have *)
(* percentages summing to 100, the three budgets of resumen_buckets sum to *)
(* the total income of the period.                                         *)
(***************************************************************************)
Suma100(r) == r.porc_necesidades + r.porc_deseos + r.porc_ahorro = 100

C10_AmountsSum ==
    /\ \A r \in ingresos :
          Suma100(r) => r.monto_necesidades + r.monto_deseos + r.monto_ahorro = r.valor_total
    /\ \A anio \in Anios, mes \in Meses :
          (\A r \in IngresosDe(anio, mes) : Suma100(r)) =>
              LET p == resumen_buckets(anio, mes).presupuesto
              IN  p.Necesidades + p.Deseos + p.Ahorro
                    = SumField(IngresosDe(anio, mes), "valor_total")

\* A period holds two incomes with different percentage splits, both
\* summing to 100.
C10_Witness ==
    \E anio \in Anios, mes \in Meses :
        \E r1, r2 \in IngresosDe(anio, mes) :
            /\ r1.porc_necesidades # r2.porc_necesidades
            /\ r1.valor_total > 0 /\ r2.valor_total > 0
            /\ Suma100(r1) /\ Suma100(r2)

(***************************************************************************)
(* Read-only calls: the queries, the list of years and the period summary  *)
(* called on their own; last.shown holds what the call returned.           *)
(***************************************************************************)
\* The year / month arguments the queries are called with: none, a year,
\* a year and a month, and a month without a year.
ConsultaFiltros ==
    { <<None, None>>, <<Some(2024), None>>, <<Some(2024), Some(3)>>, <<None, Some(3)>> }

\* The periods resumen_buckets is called with.
ConsultaPeriodos == { <<2024, 3>>, <<2023, 12>> }

\* Mutation of ObtenerIngresos: the rows read are removed from the table.
ObtenerIngresosConsume ==
    \E f \in ConsultaFiltros :
        /\ last' = Call("obtener_ingresos", f, 0, "none", <<obtener_ingresos(f[1], f[2])>>)
        /\ ingresos' = ingresos \ Where(ingresos, f[1], f[2])
        /\ UNCHANGED <<gastos, seq_ingresos, seq_gastos, borrados_ingresos, borrados_gastos>>

\* obtener_ingresos opens a connection, runs one SELECT and closes it.
ObtenerIngresos ==
    \E f \in ConsultaFiltros :
        /\ last' = Call("obtener_ingresos", f, 0, "none", <<obtener_ingresos(f[1], f[2])>>)
        /\ UNCHANGED <<ingresos, gastos, seq_ingresos, seq_gastos, borrados_ingresos, borrados_gastos>>

ObtenerGastos ==
    \E f \in ConsultaFiltros :
        /\ last' = Call("obtener_gastos", f, 0, "none", <<obtener_gastos(f[1], f[2])>>)
        /\ UNCHANGED <<ingresos, gastos, seq_ingresos, seq_gastos, borrados_ingresos, borrados_gastos>>

ObtenerAniosDisponibles ==
    \E now \in ClockYears :
        /\ last' = Call("obtener_anios_disponibles", <<now>>, 0, "none",
                        <<obtener_anios_disponibles(now)>>)
        /\ UNCHANGED <<ingresos, gastos, seq_ingresos, seq_gastos, borrados_ingresos, borrados_gastos>>

\* resumen_buckets adds its "bucket" column to the DataFrame the query
\* returned, not to the table.
ResumenBuckets ==
    \E p \in ConsultaPeriodos :
        /\ last' = Call("resumen_buckets", p, 0, "none", <<resumen_buckets(p[1], p[2])>>)
        /\ UNCHANGED <<ingresos, gastos, seq_ingresos, seq_gastos, borrados_ingresos, borrados_gastos>>

NextConsultas ==
    \/ InsertarIngreso \/ InsertarGasto \/ EliminarIngreso \/ EliminarGasto
    \/ ObtenerIngresos \/ ObtenerGastos \/ ObtenerAniosDisponibles \/ ResumenBuckets

SpecConsultas == Init /\ [][NextConsultas]_vars

(***************************************************************************)
(* C11: obtener_ingresos, obtener_gastos, obtener_anios_disponibles and    *)
(* resumen_buckets never modify the store: both tables (and their id       *)
(* counters) are the same after each call as before it, and a call         *)
(* repeated with the same arguments, with no insert or delete in between,  *)
(* returns the same result, rows in the same order.                        *)
(***************************************************************************)
ReadOnlyOps ==
    {"obtener_ingresos", "obtener_gastos", "obtener_anios_disponibles", "resumen_buckets"}

C11_Step ==
    last'.op \in ReadOnlyOps =>
        /\ ingresos' = ingresos
        /\ gastos' = gastos
        /\ seq_ingresos' = seq_ingresos
        /\ seq_gastos' = seq_gastos
        /\ (last.op = last'.op /\ last.args = last'.args) => last'.shown = last.shown

IdsIngresos(rows) == {r.id_ingreso : r \in rows}

IdsGastos(rows) == {r.id_gasto : r \in rows}

C12_Step ==
    /\ (last'.op = "insertar_ingreso" /\ last'.err = "none") =>
          /\ gastos' = gastos
          /\ \E r \in ingresos' :
                /\ r \notin ingresos
                /\ ingresos' = ingresos \cup {r}
                /\ r.id_ingreso \notin IdsIngresos(ingresos) \cup borrados_ingresos
    /\ (last'.op = "insertar_gasto" /\ last'.err = "none") =>
          /\ ingresos' = ingresos
          /\ \E r \in gastos' :
                /\ r \notin gastos
                /\ gastos' = gastos \cup {r}
                /\ r.id_gasto \notin IdsGastos(gastos) \cup borrados_gastos
    /\ Cardinality(IdsIngresos(ingresos')) = Cardinality(ingresos')
    /\ Cardinality(IdsGastos(gastos')) = Cardinality(gastos')
    /\ IdsIngresos(ingresos') \cap borrados_ingresos' = {}
    /\ IdsGastos(gastos') \cap borrados_gastos' = {}

C12_FreshIds == [][C12_Step]_vars

\* An income has just been inserted into a table whose only earlier rows,
\* the ones with the largest ids so far, were all deleted.
C12_Witness ==
    /\ last.op = "insertar_ingreso"
    /\ last.err = "none"
    /\ borrados_ingresos # {}
    /\ Cardinality(ingresos) = 1
    /\ \A b \in borrados_ingresos : b < last.id

(***************************************************************************)
(* C13: obtener_ingresos / obtener_gastos called with a month and no year  *)
(* apply no filter: they return every row of the table, of all years and   *)
(* months, each once, in the order of the call without arguments, and      *)
(* raise nothing.                                                          *)
(***************************************************************************)
RowsOf(q) == {q[i] : i \in 1..Len(q)}

C13_MonthOnly ==
    /\ \A mes \in Meses :
          /\ obtener_ingresos(None, Some(mes)) = obtener_ingresos(None, None)
          /\ RowsOf(obtener_ingresos(None, Some(mes))) = ingresos
          /\ Len(obtener_ingresos(None, Some(mes))) = Cardinality(ingresos)
          /\ obtener_gastos(None, Some(mes)) = obtener_gastos(None, None)
          /\ RowsOf(obtener_gastos(None, Some(mes))) = gastos
          /\ Len(obtener_gastos(None, Some(mes))) = Cardinality(gastos)
    /\ (last.op = "obtener_ingresos" /\ last.args[1] = None /\ last.args[2] # None) =>
          last.err = "none" /\ RowsOf(last.shown[1]) = ingresos
    /\ (last.op = "obtener_gastos" /\ last.args[1] = None /\ last.args[2] # None) =>
          last.err = "none" /\ RowsOf(last.shown[1]) = gastos

\* obtener_ingresos(mes=3) has just returned rows of two years, one of them
\* of another month.
C13_Witness ==
    /\ last.op = "obtener_ingresos"
    /\ last.args = <<None, Some(3)>>
    /\ \E r \in RowsOf(last.shown[1]) : r.mes # 3
    /\ \E r1, r2 \in RowsOf(last.shown[1]) : r1.anio # r2.anio

====
